---- MODULE Spec2Model ----
(***************************************************************************)
(* Bronze ingestion pipeline of nyc_geom_db_proto: run() of run_bronze.py  *)
(* with the watermark store (pipeline/state.py), the paginated Socrata     *)
(* fetch (pipeline/extract.py) and the raw appender (pipeline/bronze.py).  *)
(*                                                                         *)
(* One DuckDB connection is used by a run.  The database is modelled by    *)
(* two copies of its two tables: the durable (committed) copy and the      *)
(* copy the connection sees.  A statement outside a transaction is         *)
(* auto-committed (written to both); a statement inside a transaction is   *)
(* written to the connection's copy only; commit makes the connection's    *)
(* copy durable, rollback and close discard what is not durable.           *)
(***************************************************************************)
EXTENDS Integers, Sequences, FiniteSets, TLC

\* ---------------------------------------------------------------- bounds
MaxRuns == 3            \* runs of the script that are explored
MaxRows == 5            \* largest answer of the remote COUNT(*) query
MaxVersion == 2         \* rowsUpdatedAt values are 1..MaxVersion, or None
TicksPerSecond == 2     \* clock resolution finer than the filter literal

\* ------------------------------------------------------ program constants
\* config.PAGE_SIZE is 50_000; the model scales it down, the paging
\* arithmetic depends only on its relation to the row counts.
PAGE_SIZE == 2
BUILDINGS_DATASET_ID == "5zhs-2jue"

\* Python's None / SQL NULL for the integer-valued fields.
None == -1

VARIABLES
    \* --- DuckDB file (durable) and the connection's view of it
    db_state,          \* committed bronze.pipeline_state row of the dataset
    db_raw,            \* committed bronze.buildings_raw, a sequence of rows
    pipeline_state,    \* the row as the connection sees it
    buildings_raw,     \* the raw table as the connection sees it
    in_txn,            \* conn.begin() done, neither commit nor rollback yet
    \* --- locals of run()
    pc,
    last_run_at, last_dataset_ts, current_dataset_ts,
    run_id, ingested_at, is_full_load, watermark,
    total_ingested, success,
    \* --- locals of the generator fetch_pages()
    fp_pc,             \* "none", "start", "loop", "yielded", "returned"
    row_limit, where, total_rows, offset, page,
    \* --- environment
    clock,             \* datetime.now(timezone.utc), in ticks
    uuids,             \* number of uuid4() values handed out
    runs,              \* calls of run() so far
    \* --- history of the current / last run, read by the properties only
    h

vars == << db_state, db_raw, pipeline_state, buildings_raw, in_txn, pc,
           last_run_at, last_dataset_ts, current_dataset_ts, run_id,
           ingested_at, is_full_load, watermark, total_ingested, success,
           fp_pc, row_limit, where, total_rows, offset, page,
           clock, uuids, runs, h >>

db_vars == << db_state, db_raw, pipeline_state, buildings_raw, in_txn >>
run_locals == << last_run_at, last_dataset_ts, current_dataset_ts, run_id,
                 ingested_at, is_full_load, watermark, total_ingested,
                 success >>
fp_locals == << fp_pc, row_limit, where, total_rows, offset, page >>
env_vars == << clock, uuids >>

\* ------------------------------------------------------------ state.py
\* No row for the dataset in bronze.pipeline_state.
NoRow == [ present |-> FALSE, last_run_at |-> None,
           dataset_updated_at |-> None, last_run_status |-> "",
           rows_ingested |-> 0 ]

\* get_watermark: (last_run_at, dataset_updated_at), or (None, None).
get_watermark(row) ==
    IF row.present THEN << row.last_run_at, row.dataset_updated_at >>
                   ELSE << None, None >>

\* set_watermark: INSERT ... ON CONFLICT DO UPDATE of all four columns.
set_watermark(run_at, dataset_updated_at, status, rows_ingested) ==
    [ present |-> TRUE, last_run_at |-> run_at,
      dataset_updated_at |-> dataset_updated_at,
      last_run_status |-> status, rows_ingested |-> rows_ingested ]

\* ---------------------------------------------------------- run_bronze.py
\* Variant of SkipRule: strict comparison, an equal version is reloaded.
SkipRuleStrict(stored, probed) ==
    /\ stored # None
    /\ probed # None
    /\ probed < stored

\* Variant of SkipRule: the comparison reversed, a newer source is skipped
\* and an older one reloaded.
SkipRuleReversed(stored, probed) ==
    /\ stored # None
    /\ probed # None
    /\ probed >= stored

\* Variant of SkipRule: an unknown probe result counts as unchanged.
SkipRuleUnknownSkips(stored, probed) ==
    /\ stored # None
    /\ (probed = None \/ probed <= stored)

\* The skip rule of run(): both versions known and the source not newer.
SkipRule(stored, probed) ==
    /\ stored # None
    /\ probed # None
    /\ probed <= stored

\* uuid.uuid4(): a value never handed out before (n values were handed out).
uuid4(n) == 100 + n + 1

\* Variant of outcome_version: the probed version is recorded on failure
\* as well.
outcome_version_probed(ok, probed, stored) == probed

\* Variant of outcome_version: the two branches swapped.
outcome_version_swapped(ok, probed, stored) == IF ok THEN stored ELSE probed

\* The version and the status run() hands to set_watermark in its finally.
outcome_version(ok, probed, stored) == IF ok THEN probed ELSE stored
outcome_status(ok) == IF ok THEN "success" ELSE "failed"

\* Variant of total_rows_written: the counter is overwritten, not added to.
total_rows_last(total, rows) == rows

\* total_ingested += rows
total_rows_written(total, rows) == total + rows

\* ------------------------------------------------------------- extract.py
\* strftime("%Y-%m-%dT%H:%M:%S.000"): the literal keeps whole seconds only.
ts_str(ts) == ts \div TicksPerSecond

\* The where clause of fetch_pages: None, or the literal it compares with.
where_clause(watermark_ts) ==
    IF watermark_ts # None THEN ts_str(watermark_ts) ELSE None

\* total_rows after the optional row_limit clamp.
clamp_total(count, limit) ==
    IF limit # None THEN (IF count < limit THEN count ELSE limit) ELSE count

\* while offset < total_rows
loop_continues(off, total) == off < total

\* Variant of short_page: a full page is taken for the last one.
short_page_le(n) == n <= PAGE_SIZE

\* "API returned a short page": len(page) < PAGE_SIZE
short_page(n) == n < PAGE_SIZE

\* Variant of next_offset: "offset = len(page)" for "offset += len(page)".
next_offset_assigns(off, n) == n

\* offset += len(page)
next_offset(off, n) == off + n

\* The records of a page: the source's rows off+1 .. off+n under the filter.
page_records(off, n) == [ i \in 1..n |-> off + i ]

\* -------------------------------------------------------------- bronze.py
\* Variant of append: run_id and ingested_at passed in each other's place.
append_swapped(df, rid, at, source_dataset_id) ==
    [ i \in 1..Len(df) |->
        [ rec |-> df[i], run_id |-> at, ingested_at |-> rid,
          source_dataset_id |-> source_dataset_id ] ]

\* append: every record of the page gets the three metadata columns.
append(df, rid, at, source_dataset_id) ==
    [ i \in 1..Len(df) |->
        [ rec |-> df[i], run_id |-> rid, ingested_at |-> at,
          source_dataset_id |-> source_dataset_id ] ]

\* Variant of insert: the table is rebuilt from the batch (CREATE OR REPLACE
\* TABLE ... AS SELECT instead of INSERT INTO).
insert_replaces(table, rows) == rows

\* INSERT INTO bronze.buildings_raw SELECT * FROM _bronze_batch
insert(table, rows) == table \o rows

\* ----------------------------------------------------- DuckDB transactions
\* conn.commit(): the connection's view becomes durable.  << view, durable >>
commit(view, durable) == << view, view >>

\* Variant of rollback: the except handler calls commit by mistake.
rollback_commits(view, durable) == << view, view >>

\* conn.rollback(): the view falls back to what is durable.
rollback(view, durable) == << durable, durable >>

\* A write of new contents: inside a transaction only the view changes.
write(new, durable, txn) == << new, IF txn THEN durable ELSE new >>

\* conn.close(): an open transaction is rolled back.
close(view, durable) == << durable, durable >>

\* ------------------------------------------------------------------ Init
NoHistory ==
    [ pre_state |-> NoRow, pre_raw |-> << >>, txn_opened |-> FALSE,
      set_calls |-> 0, set_in_txn |-> FALSE, outcome |-> "none",
      fail_batch |-> 0, count |-> None, page_queries |-> 0,
      batches |-> << >>, stable |-> TRUE, interrupted |-> FALSE,
      probed |-> FALSE, probe_failed |-> FALSE,
      exc |-> "none", raised |-> "none", rolled_back |-> FALSE,
      appended |-> 0, closed_in_txn |-> FALSE,
      last_success_at |-> None, last_success_version |-> None ]

Init ==
    /\ db_state = NoRow
    /\ db_raw = << >>
    /\ pipeline_state = NoRow
    /\ buildings_raw = << >>
    /\ in_txn = FALSE
    /\ pc = "idle"
    /\ last_run_at = None
    /\ last_dataset_ts = None
    /\ current_dataset_ts = None
    /\ run_id = None
    /\ ingested_at = None
    /\ is_full_load = FALSE
    /\ watermark = None
    /\ total_ingested = 0
    /\ success = FALSE
    /\ fp_pc = "none"
    /\ row_limit = None
    /\ where = None
    /\ total_rows = 0
    /\ offset = 0
    /\ page = 0
    /\ clock = 0
    /\ uuids = 0
    /\ runs = 0
    /\ h = NoHistory

\* ----------------------------------------------------------------- run()
\* The two tables as the connection sees them, and as they are on disk.
View == << pipeline_state, buildings_raw >>
Durable == << db_state, db_raw >>

\* The database variables after a transaction operation's << view, durable >>.
SetDb(vd, txn) ==
    /\ pipeline_state' = vd[1][1]
    /\ buildings_raw' = vd[1][2]
    /\ db_state' = vd[2][1]
    /\ db_raw' = vd[2][2]
    /\ in_txn' = txn

\* run() up to the probe: connect, state.ensure, state.get_watermark.
StartRun ==
    /\ pc = "idle"
    /\ runs < MaxRuns
    /\ runs' = runs + 1
    /\ clock' = clock + 1
    /\ last_run_at' = get_watermark(pipeline_state)[1]
    /\ last_dataset_ts' = get_watermark(pipeline_state)[2]
    /\ current_dataset_ts' = None
    /\ run_id' = None
    /\ ingested_at' = None
    /\ is_full_load' = FALSE
    /\ watermark' = None
    /\ total_ingested' = 0
    /\ success' = FALSE
    /\ fp_pc' = "none"
    /\ where' = None
    /\ total_rows' = 0
    /\ offset' = 0
    /\ page' = 0
    /\ pc' = "probing"
    /\ h' = [ NoHistory EXCEPT !.pre_state = db_state, !.pre_raw = db_raw,
                               !.last_success_at = h.last_success_at,
                               !.last_success_version =
                                   h.last_success_version ]
    /\ UNCHANGED << db_vars, row_limit, uuids >>

\* get_dataset_updated_at answers v; the skip rule; on proceed the run's
\* identity and mode are fixed, the transaction begins and fetch_pages is
\* called (a generator: nothing of it runs yet).
Probe(v) ==
    /\ pc = "probing"
    /\ current_dataset_ts' = v
    /\ IF SkipRule(last_dataset_ts, v)
       THEN /\ SetDb(close(View, Durable), FALSE)
            /\ pc' = "idle"
            /\ h' = [ h EXCEPT !.outcome = "skipped", !.probed = TRUE ]
            /\ UNCHANGED << run_id, ingested_at, is_full_load, watermark,
                            total_ingested, success, fp_pc, uuids >>
       ELSE /\ run_id' = uuid4(uuids)
            /\ uuids' = uuids + 1
            /\ ingested_at' = clock
            /\ is_full_load' = (last_run_at = None)
            /\ watermark' = IF last_run_at = None THEN None ELSE last_run_at
            /\ total_ingested' = 0
            /\ success' = FALSE
            /\ in_txn' = TRUE
            /\ fp_pc' = "start"
            /\ pc' = "loading"
            /\ h' = [ h EXCEPT !.txn_opened = TRUE, !.probed = TRUE ]
            /\ UNCHANGED << db_state, db_raw, pipeline_state, buildings_raw >>
    /\ UNCHANGED << last_run_at, last_dataset_ts, row_limit, where,
                    total_rows, offset, page, clock, runs >>

\* Variant of ProbeFails: the failure is caught and taken for "unknown",
\* the run goes on as after a probe that answered None.
ProbeFailsAsUnknown ==
    /\ pc = "probing"
    /\ current_dataset_ts' = None
    /\ run_id' = uuid4(uuids)
    /\ uuids' = uuids + 1
    /\ ingested_at' = clock
    /\ is_full_load' = (last_run_at = None)
    /\ watermark' = IF last_run_at = None THEN None ELSE last_run_at
    /\ in_txn' = TRUE
    /\ fp_pc' = "start"
    /\ pc' = "loading"
    /\ h' = [ h EXCEPT !.txn_opened = TRUE, !.probe_failed = TRUE ]
    /\ UNCHANGED << db_state, db_raw, pipeline_state, buildings_raw,
                    last_run_at, last_dataset_ts, total_ingested, success,
                    row_limit, where, total_rows, offset, page, clock, runs >>

\* requests.get / raise_for_status raises: run() is left before conn.begin().
ProbeFails ==
    /\ pc = "probing"
    /\ pc' = "idle"
    /\ h' = [ h EXCEPT !.outcome = "probe_failed", !.probe_failed = TRUE,
                       !.exc = "probe", !.raised = "probe" ]
    /\ UNCHANGED << db_vars, run_locals, fp_locals, env_vars, runs >>

\* fetch_pages up to the count: the filter, the count query answering n,
\* the clamp and the early return on zero rows.
CountQuery(n) ==
    /\ pc = "loading"
    /\ fp_pc = "start"
    /\ where' = where_clause(watermark)
    /\ total_rows' = clamp_total(n, row_limit)
    /\ offset' = 0
    /\ h' = [ h EXCEPT !.count = n ]
    /\ IF total_rows' = 0 \/ ~loop_continues(0, total_rows')
       THEN fp_pc' = "returned" /\ pc' = "commit"
       ELSE fp_pc' = "loop" /\ pc' = "loading"
    /\ UNCHANGED << db_vars, run_locals, row_limit, page, env_vars, runs >>

\* The rows an unchanged source holds at offset off when it counted n.
unchanged_page(n, off) ==
    IF n - off >= PAGE_SIZE THEN PAGE_SIZE
    ELSE IF n - off > 0 THEN n - off ELSE 0

\* One round of the while loop up to the yield: the page query at the
\* current offset answers n records; an empty page ends the generator.
PageQuery(n) ==
    /\ pc = "loading"
    /\ fp_pc = "loop"
    /\ loop_continues(offset, total_rows)
    /\ page' = n
    /\ h' = [ h EXCEPT !.page_queries = @ + 1,
                       !.stable = @ /\ n = unchanged_page(h.count, offset),
                       !.batches = IF n = 0 THEN @
                                   ELSE Append(@, [ offset |-> offset,
                                                    size |-> n ]) ]
    /\ IF n = 0
       THEN fp_pc' = "returned" /\ pc' = "commit"
       ELSE fp_pc' = "yielded" /\ pc' = "appending"
    /\ UNCHANGED << db_vars, run_locals, row_limit, where, total_rows,
                    offset, env_vars, runs >>

\* The generator resumed after a yield: the offset moves on by the page's
\* length, a short page or an offset at total_rows ends it.
Resume ==
    /\ offset' = next_offset(offset, page)
    /\ IF short_page(page) \/ ~loop_continues(offset', total_rows)
       THEN fp_pc' = "returned" /\ pc' = "commit"
       ELSE fp_pc' = "loop" /\ pc' = "loading"

\* The loop body of run(): bronze.append of the yielded page, the row
\* counter, and the generator resumed up to its next query or its end.
AppendPage ==
    /\ pc = "appending"
    /\ fp_pc = "yielded"
    /\ LET df == page_records(offset, page)
           tagged == append(df, run_id, ingested_at, BUILDINGS_DATASET_ID)
           raw == write(insert(buildings_raw, tagged), db_raw, in_txn)
       IN  /\ buildings_raw' = raw[1]
           /\ db_raw' = raw[2]
           /\ total_ingested' = total_rows_written(total_ingested, Len(tagged))
           /\ h' = [ h EXCEPT !.appended = @ + page ]
    /\ Resume
    /\ UNCHANGED << db_state, pipeline_state, in_txn, last_run_at,
                    last_dataset_ts, current_dataset_ts, run_id, ingested_at,
                    is_full_load, watermark, success, row_limit, where,
                    total_rows, page, env_vars, runs >>

\* client.get of the count raises inside the generator.
CountFails ==
    /\ pc = "loading"
    /\ fp_pc = "start"
    /\ fp_pc' = "raised"
    /\ pc' = "except"
    /\ h' = [ h EXCEPT !.fail_batch = 1, !.exc = "fetch" ]
    /\ UNCHANGED << db_vars, run_locals, row_limit, where, total_rows,
                    offset, page, env_vars, runs >>

\* client.get of a page raises inside the generator.
PageFails ==
    /\ pc = "loading"
    /\ fp_pc = "loop"
    /\ loop_continues(offset, total_rows)
    /\ fp_pc' = "raised"
    /\ pc' = "except"
    /\ h' = [ h EXCEPT !.fail_batch = Len(h.batches) + 1, !.exc = "fetch" ]
    /\ UNCHANGED << db_vars, run_locals, row_limit, where, total_rows,
                    offset, page, env_vars, runs >>

\* bronze.append raises (table creation or INSERT): no row of the page lands.
AppendFails ==
    /\ pc = "appending"
    /\ fp_pc = "yielded"
    /\ pc' = "except"
    /\ h' = [ h EXCEPT !.fail_batch = Len(h.batches), !.exc = "append" ]
    /\ UNCHANGED << db_vars, run_locals, fp_locals, env_vars, runs >>

\* Variant of Commit: the success flag is not set after conn.commit().
CommitFlagNotSet ==
    /\ pc = "commit"
    /\ SetDb(commit(View, Durable), FALSE)
    /\ pc' = "finally"
    /\ UNCHANGED << run_locals, fp_locals, env_vars, runs, h >>

\* try body completed: conn.commit(); success = True.
Commit ==
    /\ pc = "commit"
    /\ SetDb(commit(View, Durable), FALSE)
    /\ success' = TRUE
    /\ pc' = "finally"
    /\ UNCHANGED << last_run_at, last_dataset_ts, current_dataset_ts, run_id,
                    ingested_at, is_full_load, watermark, total_ingested,
                    fp_locals, env_vars, runs, h >>

\* Variant of Rollback: the handler re-raises without conn.rollback().
RollbackOmitted ==
    /\ pc = "except"
    /\ pc' = "finally"
    /\ UNCHANGED << db_vars, run_locals, fp_locals, env_vars, runs, h >>

\* Variant of Rollback: the handler logs the failure and does not re-raise.
RollbackSwallows ==
    /\ pc = "except"
    /\ SetDb(rollback(View, Durable), FALSE)
    /\ pc' = "finally"
    /\ h' = [ h EXCEPT !.rolled_back = TRUE, !.exc = "none" ]
    /\ UNCHANGED << run_locals, fp_locals, env_vars, runs >>

\* except Exception: conn.rollback(); raise (the caught exception stays
\* pending while the finally runs).
Rollback ==
    /\ pc = "except"
    /\ SetDb(rollback(View, Durable), FALSE)
    /\ pc' = "finally"
    /\ h' = [ h EXCEPT !.rolled_back = TRUE ]
    /\ UNCHANGED << run_locals, fp_locals, env_vars, runs >>

\* finally: state.set_watermark with the run's outcome, conn.close(); then
\* run() returns, or the pending exception leaves it.
RecordOutcome ==
    /\ pc = "finally"
    /\ LET row == set_watermark(
                      ingested_at,
                      outcome_version(success, current_dataset_ts,
                                      last_dataset_ts),
                      outcome_status(success),
                      total_ingested)
           st == write(row, db_state, in_txn)
       IN  SetDb(close(<< st[1], buildings_raw >>, << st[2], db_raw >>),
                 FALSE)
    /\ pc' = "idle"
    /\ h' = [ h EXCEPT !.set_calls = @ + 1,
                       !.set_in_txn = in_txn,
                       !.closed_in_txn = in_txn,
                       !.outcome = IF h.exc = "none" THEN "returned"
                                   ELSE "raised",
                       !.raised = h.exc,
                       !.last_success_at = IF success THEN ingested_at
                                           ELSE @,
                       !.last_success_version =
                           IF success THEN current_dataset_ts ELSE @ ]
    /\ UNCHANGED << run_locals, fp_locals, env_vars, runs >>

Versions == { None } \cup (1..MaxVersion)

Next ==
    \/ StartRun
    \/ \E v \in Versions : Probe(v)
    \/ ProbeFails
    \/ \E n \in 0..MaxRows : CountQuery(n)
    \/ CountFails
    \/ \E n \in 0..PAGE_SIZE : PageQuery(n)
    \/ PageFails
    \/ AppendPage
    \/ AppendFails
    \/ Commit
    \/ Rollback
    \/ RecordOutcome

\* Runs that end by completing the loop or by an Exception of a fetch or
\* an append.
Spec == Init /\ [][Next]_vars

\* A KeyboardInterrupt or SystemExit during a blocking call of the try
\* block: "except Exception" does not catch it, the finally runs with the
\* transaction still open.
Interrupt ==
    /\ pc \in { "loading", "appending" }
    /\ pc' = "finally"
    /\ h' = [ h EXCEPT !.interrupted = TRUE, !.exc = "interrupt" ]
    /\ UNCHANGED << db_vars, run_locals, fp_locals, env_vars, runs >>

NextCancel ==
    \/ Next
    \/ Interrupt

\* The runs of Spec and the runs cut short by such an interruption.
SpecCancel == Init /\ [][NextCancel]_vars

\* ------------------------------------------- fetch_pages called directly
\* A caller other than run() (the row_limit parameter is "useful for
\* testing") iterates fetch_pages(client, dataset_id, watermark_ts,
\* row_limit) with any watermark and any cap, and only takes the batches.
RowLimits == { None } \cup (0..MaxRows)
WatermarkArgs == { None } \cup (1..MaxRuns)

InitFetch ==
    /\ db_state = NoRow
    /\ db_raw = << >>
    /\ pipeline_state = NoRow
    /\ buildings_raw = << >>
    /\ in_txn = FALSE
    /\ pc = "loading"
    /\ last_run_at = None
    /\ last_dataset_ts = None
    /\ current_dataset_ts = None
    /\ run_id = None
    /\ ingested_at = None
    /\ is_full_load = FALSE
    /\ watermark \in WatermarkArgs
    /\ total_ingested = 0
    /\ success = FALSE
    /\ fp_pc = "start"
    /\ row_limit \in RowLimits
    /\ where = None
    /\ total_rows = 0
    /\ offset = 0
    /\ page = 0
    /\ clock = 0
    /\ uuids = 0
    /\ runs = 0
    /\ h = NoHistory

\* The caller's loop body: the batch is taken, the generator resumed.
Consume ==
    /\ pc = "appending"
    /\ fp_pc = "yielded"
    /\ Resume
    /\ h' = [ h EXCEPT !.appended = @ + page ]
    /\ UNCHANGED << db_vars, run_locals, row_limit, where, total_rows,
                    page, env_vars, runs >>

NextFetch ==
    \/ \E n \in 0..MaxRows : CountQuery(n)
    \/ CountFails
    \/ \E n \in 0..PAGE_SIZE : PageQuery(n)
    \/ PageFails
    \/ Consume

SpecFetch == InitFetch /\ [][NextFetch]_vars

\* ============================================================ properties
RunEnded == pc = "idle" /\ runs > 0
RunFailed == RunEnded /\ h.outcome = "raised"
RunSucceeded == RunEnded /\ h.outcome = "returned"
RunSkipped == RunEnded /\ h.outcome = "skipped"
InTry == pc \in { "loading", "appending", "commit", "except" }

RECURSIVE SumSizes(_)
SumSizes(b) == IF b = << >> THEN 0 ELSE Head(b).size + SumSizes(Tail(b))

\* C1 -- Atomicity: after a run that failed with a fetch or append error on
\* its Nth batch (any N >= 1), the raw table on disk holds no row tagged
\* with that run's id, and the rows committed by earlier runs are all still
\* there, in place.
C1_Atomicity ==
    RunFailed =>
        /\ h.fail_batch >= 1
        /\ \A i \in 1..Len(db_raw) : db_raw[i].run_id # run_id
        /\ Len(db_raw) >= Len(h.pre_raw)
        /\ SubSeq(db_raw, 1, Len(h.pre_raw)) = h.pre_raw

\* A run fails on its second or later batch, after rows of it were appended
\* and with rows of an earlier run in the table.
C1_Witness ==
    /\ RunFailed
    /\ h.fail_batch >= 2
    /\ total_ingested > 0
    /\ Len(h.pre_raw) > 0

\* C2 -- after a failed run the watermark record's last_run_at and
\* last_source_version are what they were before the run.
C2_FailedRunKeepsWatermark ==
    RunFailed =>
        /\ db_state.last_run_at = h.pre_state.last_run_at
        /\ db_state.dataset_updated_at = h.pre_state.dataset_updated_at

C4_IdempotentSkip ==
    ( /\ last_dataset_ts # None
      /\ current_dataset_ts # None
      /\ current_dataset_ts <= last_dataset_ts ) =>
        /\ RunSkipped
        /\ ~h.txn_opened
        /\ ~in_txn
        /\ h.set_calls = 0
        /\ db_state = h.pre_state
        /\ db_raw = h.pre_raw
        /\ pipeline_state = h.pre_state
        /\ buildings_raw = h.pre_raw

\* A run is skipped on an equal version, with rows of an earlier run stored.
C4_Witness ==
    /\ RunSkipped
    /\ current_dataset_ts = last_dataset_ts
    /\ Len(db_raw) > 0

\* C5 -- after a successful run the record holds the run's ingested_at and
\* the version probed by that run, and last_run_at is above its earlier
\* value when there was one.
C5_SuccessAdvancesWatermark ==
    RunSucceeded =>
        /\ db_state.last_run_at = ingested_at
        /\ db_state.dataset_updated_at = current_dataset_ts
        /\ h.pre_state.present =>
               db_state.last_run_at > h.pre_state.last_run_at

\* A successful run over an existing record, with a newer known version.
C5_Witness ==
    /\ RunSucceeded
    /\ h.pre_state.present
    /\ current_dataset_ts # None
    /\ h.pre_state.dataset_updated_at # None
    /\ current_dataset_ts > h.pre_state.dataset_updated_at

\* C6 -- a run that proceeds (it is inside its try block) is a full load
\* exactly when no earlier run of the source succeeded.
C6_FullLoadIffNoSuccess ==
    InTry => (is_full_load <=> h.last_success_at = None)

\* C7 -- an incremental run that follows a successful run fetches (inside
\* its try block) with watermark_ts equal to the ingested_at of the most
\* recent successful run.
C7_WatermarkIsLastSuccess ==
    (InTry /\ ~is_full_load /\ h.last_success_at # None) =>
        watermark = h.last_success_at

\* C8 -- metadata tagging: every row the current run has appended carries
\* the run's run_id, its ingested_at and the dataset id; no row of an
\* earlier run carries the run's run_id; and over the whole table two rows
\* have the same run_id exactly when they have the same ingested_at (runs
\* have distinct ingested_at values).
C8_MetadataTagging ==
    /\ h.txn_opened =>
           /\ \A i \in 1..Len(buildings_raw) :
                  i > Len(h.pre_raw) =>
                      /\ buildings_raw[i].run_id = run_id
                      /\ buildings_raw[i].ingested_at = ingested_at
                      /\ buildings_raw[i].source_dataset_id
                             = BUILDINGS_DATASET_ID
           /\ \A i \in 1..Len(h.pre_raw) : h.pre_raw[i].run_id # run_id
    /\ \A i, j \in 1..Len(buildings_raw) :
           (buildings_raw[i].run_id = buildings_raw[j].run_id)
               <=> (buildings_raw[i].ingested_at
                        = buildings_raw[j].ingested_at)

\* A committed run of at least two batches, after an earlier run's rows.
C8_Witness ==
    /\ RunSucceeded
    /\ Len(h.batches) >= 2
    /\ Len(h.pre_raw) > 0
    /\ Len(db_raw) > Len(h.pre_raw) + PAGE_SIZE

\* C9 -- pagination: when the generator has ended over an unchanged source
\* of N > 0 rows with no row cap, it issued ceil(N / PAGE_SIZE) page
\* queries, each emitted as a batch, at offsets 0, P, 2P, ...; no batch is
\* above PAGE_SIZE, all but the last are PAGE_SIZE, the sizes add up to N.
C9_Pagination ==
    ( /\ fp_pc = "returned"
      /\ h.stable
      /\ h.count > 0
      /\ row_limit = None ) =>
        LET b == h.batches
        IN  /\ Len(b) = (h.count + PAGE_SIZE - 1) \div PAGE_SIZE
            /\ h.page_queries = Len(b)
            /\ \A k \in 1..Len(b) :
                   /\ b[k].offset = (k - 1) * PAGE_SIZE
                   /\ b[k].size <= PAGE_SIZE
                   /\ k < Len(b) => b[k].size = PAGE_SIZE
            /\ SumSizes(b) = h.count

\* The shape of the example: two full pages and a short one.
C9_Witness ==
    /\ fp_pc = "returned"
    /\ h.stable
    /\ row_limit = None
    /\ h.count > 2 * PAGE_SIZE
    /\ h.count < 3 * PAGE_SIZE
    /\ Len(h.batches) = 3
    /\ h.batches[3].size < PAGE_SIZE

\* C10 -- zero-row source: once the count query has answered 0, no page
\* query is issued and no batch emitted, the run goes on to commit, and it
\* ends recorded as a success of 0 rows with last_run_at = its ingested_at.
C10_ZeroRowSource ==
    h.count = 0 =>
        /\ h.page_queries = 0
        /\ h.batches = << >>
        /\ fp_pc = "returned"
        /\ pc \in { "commit", "finally", "idle" }
        /\ db_raw = h.pre_raw
        /\ pc = "idle" =>
               /\ h.outcome = "returned"
               /\ db_state.present
               /\ db_state.rows_ingested = 0
               /\ db_state.last_run_status = "success"
               /\ db_state.last_run_at = ingested_at

\* An incremental run over an existing record finds nothing new and still
\* moves last_run_at forward.
C10_Witness ==
    /\ RunSucceeded
    /\ h.count = 0
    /\ ~is_full_load
    /\ h.pre_state.present
    /\ db_state.last_run_at > h.pre_state.last_run_at
    /\ db_state.rows_ingested = 0

\* C11 -- a fetch or append failure inside the try is re-raised to the
\* caller as the failure it was, and run() is left with it only after the
\* rollback and the one set_watermark call; a run whose transaction was
\* rolled back never returns normally, and nothing leaves run() while the
\* handler or the finally is still to run.
C11_FailureReRaised ==
    /\ pc \in { "except", "finally" } => h.outcome = "none"
    /\ (h.exc \in { "fetch", "append" } /\ RunEnded) =>
           /\ h.outcome = "raised"
           /\ h.raised = h.exc
           /\ h.rolled_back
           /\ h.set_calls = 1
           /\ db_state.last_run_status = "failed"
    /\ (h.rolled_back /\ RunEnded) => h.outcome = "raised"
    /\ h.outcome = "returned" => (success /\ ~h.rolled_back)

\* An append failure on a later batch has left run() as an exception.
C11_Witness ==
    /\ RunEnded
    /\ h.exc = "append"
    /\ h.raised = "append"
    /\ h.rolled_back
    /\ h.fail_batch >= 2
    /\ h.set_calls = 1

\* C12 -- skip decision: once the probe has answered, the run is skipped
\* exactly when the stored and the probed version are both known and the
\* probed one is not above the stored one; in every other combination (no
\* record, stored unknown, probe unknown, probed above stored) the run has
\* opened its transaction and goes on to load.
C12_SkipDecision ==
    h.probed =>
        LET both_known == last_dataset_ts # None /\ current_dataset_ts # None
            not_newer == current_dataset_ts <= last_dataset_ts
        IN  /\ (h.outcome = "skipped") <=> (both_known /\ not_newer)
            /\ ~h.pre_state.present => h.txn_opened
            /\ (last_dataset_ts = None /\ current_dataset_ts # None)
                   => h.txn_opened
            /\ current_dataset_ts = None => h.txn_opened
            /\ (both_known /\ current_dataset_ts > last_dataset_ts)
                   => h.txn_opened
            /\ h.txn_opened => h.outcome # "skipped"

\* A run over a record with a known version goes on to load although the
\* probe answered unknown.
C12_Witness ==
    /\ h.probed
    /\ h.txn_opened
    /\ h.pre_state.present
    /\ last_dataset_ts # None
    /\ current_dataset_ts = None

C14_ProbeFailurePropagates ==
    h.probe_failed =>
        /\ RunEnded
        /\ h.outcome = "probe_failed"
        /\ h.raised = "probe"
        /\ ~h.probed
        /\ ~h.txn_opened
        /\ ~in_txn
        /\ h.set_calls = 0
        /\ db_state = h.pre_state
        /\ db_raw = h.pre_raw
        /\ pipeline_state = h.pre_state
        /\ buildings_raw = h.pre_raw

\* The probe fails on a database that holds a record and rows.
C14_Witness ==
    /\ h.probe_failed
    /\ h.outcome = "probe_failed"
    /\ h.pre_state.present
    /\ Len(h.pre_raw) > 0

\* C15 -- row cap: with a cap given, the rows fetched and emitted over all
\* batches never exceed the cap, and total_rows is min(count, cap).
C15_RowCapBoundsFetch ==
    row_limit # None =>
        /\ SumSizes(h.batches) <= row_limit
        /\ h.count # None =>
               total_rows = IF h.count < row_limit THEN h.count
                            ELSE row_limit

\* s is an initial part of t.
IsPrefix(s, t) == Len(s) <= Len(t) /\ SubSeq(t, 1, Len(s)) = s

\* C16 -- append-only raw store: no step of any run (append, commit,
\* rollback, outcome write, close) changes or removes a row that is on disk:
\* the committed table after the step starts with the committed table
\* before it, and the connection goes on seeing every committed row.
C16_AppendOnly ==
    [][ /\ IsPrefix(db_raw, db_raw')
        /\ IsPrefix(db_raw', buildings_raw') ]_vars

\* Two runs have committed rows one after the other and a third run, which
\* appended rows, was rolled back.
C16_Witness ==
    /\ RunFailed
    /\ h.appended > 0
    /\ runs = 3
    /\ db_raw = h.pre_raw
    /\ \E i, j \in 1..Len(db_raw) : db_raw[i].run_id # db_raw[j].run_id

\* C17 -- cancellation: a run that was left by any exception after its
\* transaction was opened and before its commit has rolled the transaction
\* back before the connection was closed, so that no transaction (and no
\* write made in it) was pending at the close, and the raw table on disk
\* holds nothing of the run.
C17_InterruptRollsBack ==
    (RunEnded /\ h.txn_opened /\ h.exc # "none") =>
        /\ h.rolled_back
        /\ ~h.closed_in_txn
        /\ db_raw = h.pre_raw

\* C18 -- the fetch is finite whatever the source answers: no more than
\* total_rows page queries are ever issued, every emitted batch is non-empty
\* and starts strictly after the one before it and below total_rows, the
\* offset is the number of rows taken so far, and the loop only waits for a
\* page while the offset is below total_rows.
C18_FetchFinite ==
    /\ h.count = None => h.page_queries = 0
    /\ h.count # None => h.page_queries <= total_rows
    /\ Len(h.batches) <= h.page_queries
    /\ h.page_queries <= Len(h.batches) + 1
    /\ \A k \in 1..Len(h.batches) :
           /\ h.batches[k].size >= 1
           /\ h.batches[k].offset < total_rows
           /\ k > 1 => h.batches[k].offset > h.batches[k - 1].offset
    /\ fp_pc = "loop" => (offset < total_rows /\ offset = h.appended)
    /\ fp_pc = "returned" => offset = h.appended

\* A source that shrank after the count: two full pages, then an empty
\* page below total_rows has ended the fetch.
C18_Witness ==
    /\ fp_pc = "returned"
    /\ ~h.stable
    /\ Len(h.batches) >= 2
    /\ h.page_queries = Len(h.batches) + 1
    /\ page = 0
    /\ offset < total_rows

\* C19 -- a run is skipped only if an earlier run of the source committed
\* (the most recent one that did) and recorded a known version not below
\* the one the skipped run probed; failed runs cause no skip: a known
\* version in the record is always the one the last committed run recorded.
C19_SkipNeedsEarlierSuccess ==
    /\ h.outcome = "skipped" =>
           /\ h.last_success_at # None
           /\ h.last_success_version # None
           /\ h.last_success_version >= current_dataset_ts
    /\ (pc = "idle" /\ db_state.dataset_updated_at # None) =>
           /\ h.last_success_at # None
           /\ db_state.dataset_updated_at = h.last_success_version

\* A run is skipped right after a failed run that followed a committed one.
C19_Witness ==
    /\ RunSkipped
    /\ h.pre_state.last_run_status = "failed"
    /\ h.last_success_at # None
    /\ h.last_success_at < h.pre_state.last_run_at

\* C20 (as claimed) -- a run that starts with a known stored version ends
\* with a known stored version that is not smaller.
C20_VersionNeverReverts ==
    (RunEnded /\ h.pre_state.dataset_updated_at # None) =>
        /\ db_state.dataset_updated_at # None
        /\ db_state.dataset_updated_at >= h.pre_state.dataset_updated_at

\* C20 (amended) -- a run that starts with a known stored version ends
\* with that version, or, if it committed, with what it probed: a larger
\* known version, or unknown when its probe answered unknown.  Failed and
\* skipped runs, and failed probes, leave the stored version as it was.
C20_VersionStep ==
    (RunEnded /\ h.pre_state.dataset_updated_at # None) =>
        \/ db_state.dataset_updated_at = h.pre_state.dataset_updated_at
        \/ /\ RunSucceeded
           /\ current_dataset_ts # None
           /\ db_state.dataset_updated_at = current_dataset_ts
           /\ current_dataset_ts > h.pre_state.dataset_updated_at
        \/ /\ RunSucceeded
           /\ current_dataset_ts = None
           /\ db_state.dataset_updated_at = None

\* A committed run whose probe answered unknown has replaced a known stored
\* version by unknown.
C20_Witness ==
    /\ RunSucceeded
    /\ h.pre_state.dataset_updated_at # None
    /\ current_dataset_ts = None
    /\ db_state.dataset_updated_at = None

====
